---- MODULE Spec2Model ----
(***************************************************************************)
(* Model of the Vulkan bootstrap of ray-tracing-in-vulkano:                *)
(* Application::new (library, instance, event loop, video mode, window,    *)
(* surface, physical device, logical device, queue, swapchain) as driven   *)
(* by main through RayTracer::new, and the event handler of                *)
(* Application::run.                                                       *)
(***************************************************************************)
EXTENDS Integers, Sequences, FiniteSets

VARIABLES
    pc,                 \* the statement of main / Application::new / run reached
    window_config,      \* argument of Application::new
    present_mode,       \* argument of Application::new
    visible_devices,    \* argument of Application::new (Option<Vec<u32>>)
    primary_monitor,    \* what el.primary_monitor() finds (Option of video modes)
    physical_devices,   \* what instance.enumerate_physical_devices() yields
    attempted,          \* the stages of new started so far, in order
    succeeded,          \* the stages of new that returned without error
    fullscreen,         \* local `fullscreen` of new (Option<Fullscreen>)
    physical_device,    \* local `physical_device` of new (Option while unset)
    queue_family_index, \* local `queue_family_index` of new
    surface_capabilities, \* local of the swapchain block (Option while unset)
    image_format,       \* local `image_format` of the swapchain block
    swapchain,          \* the SwapchainCreateInfo the swapchain was created from
    result,             \* what new returned: "Pending", "Ok", an error, "Panic"
    application,        \* the Application returned by new (Option)
    control_flow,       \* winit's ControlFlow during run
    event,              \* the event last handed to the handler of run (Option)
    user_settings,      \* the UserSettings of main, kept by the RayTracer
    prev_settings,      \* the UserSettings they are compared with
    reset_calls         \* what requires_accumulation_reset returned, each way

vars == <<pc, window_config, present_mode, visible_devices, primary_monitor,
          physical_devices, attempted, succeeded, fullscreen, physical_device,
          queue_family_index, surface_capabilities, image_format, swapchain,
          result, application, control_flow, event, user_settings, prev_settings,
          reset_calls>>

-----------------------------------------------------------------------------
(* Bounds of the model.                                                    *)

MaxDevices == 2
MaxImageCount == 2
MaxChanges == 1

-----------------------------------------------------------------------------
(* Rust's Option, as a sequence of at most one element.                    *)

None == <<>>
Some(x) == <<x>>
IsSome(o) == o # <<>>
Unwrap(o) == o[1]

Contains(v, x) == \E i \in 1..Len(v) : v[i] = x

-----------------------------------------------------------------------------
(* Options::default and the match on options.present_mode in main.         *)

DefaultWidth == 1280
DefaultHeight == 720

PresentModeOf(n) ==
    CASE n = 0 -> "Immediate"
      [] n = 1 -> "Mailbox"
      [] n = 2 -> "Fifo"
      [] n = 3 -> "FifoRelaxed"

\* Options::default()
DefaultOptions ==
    [benchmark |-> FALSE, benchmark_next_scenes |-> FALSE, benchmark_max_time |-> 60,
     samples |-> 8, bounces |-> 16, max_samples |-> 65536, scene_index |-> 1,
     visible_devices |-> None, width |-> DefaultWidth, height |-> DefaultHeight,
     present_mode |-> 2, fullscreen |-> FALSE]

\* UserSettings::from(&Options); an f32 is written as its literal
FromOptions(opts) ==
    [benchmark |-> opts.benchmark,
     benchmark_next_scenes |-> opts.benchmark_next_scenes,
     benchmark_max_time |-> opts.benchmark_max_time,
     scene_index |-> opts.scene_index,
     is_ray_traced |-> TRUE,
     accumulate_rays |-> TRUE,
     number_of_samples |-> opts.samples,
     number_of_bounces |-> opts.bounces,
     max_number_of_samples |-> opts.max_samples,
     field_of_view |-> "0.0",
     aperture |-> "0.0",
     focus_distance |-> "0.0",
     show_heatmap |-> FALSE,
     heatmap_scale |-> "1.5",
     show_settings |-> ~opts.benchmark,
     show_overlay |-> TRUE]

\* != on f32: a NaN is unequal to every value, itself included, and the two
\* zeros are equal
F32Ne(x, y) ==
    \/ x = "NaN"
    \/ y = "NaN"
    \/ (IF x = "-0.0" THEN "0.0" ELSE x) # (IF y = "-0.0" THEN "0.0" ELSE y)

\* a comparison that leaves out the focus distance
RequiresAccumulationResetNoFocus(self, prev) ==
    \/ self.is_ray_traced # prev.is_ray_traced
    \/ self.accumulate_rays # prev.accumulate_rays
    \/ self.number_of_bounces # prev.number_of_bounces
    \/ F32Ne(self.field_of_view, prev.field_of_view)
    \/ F32Ne(self.aperture, prev.aperture)

\* UserSettings::requires_accumulation_reset
RequiresAccumulationReset(self, prev) ==
    \/ self.is_ray_traced # prev.is_ray_traced
    \/ self.accumulate_rays # prev.accumulate_rays
    \/ self.number_of_bounces # prev.number_of_bounces
    \/ F32Ne(self.field_of_view, prev.field_of_view)
    \/ F32Ne(self.aperture, prev.aperture)
    \/ F32Ne(self.focus_distance, prev.focus_distance)

WindowConfig(w, h, fs) ==
    [title |-> "Vulkan Window", width |-> w, height |-> h,
     cursor_disabled |-> FALSE, fullscreen |-> fs, resizable |-> ~fs]

-----------------------------------------------------------------------------
(* ApplicationCreationError.                                               *)

ApplicationCreationError ==
    {"NoPrimaryMonitorError", "NoVideoModeError", "NoPhysicalDevicesError",
     "NoQueuesCreatedError", "NoSupportedCompositeAlphasError", "LoadingError",
     "InstanceCreationError", "OsError", "SurfaceCreationError", "VulkanError",
     "DeviceCreationError", "PhysicalDeviceError", "SwapchainCreationError"}

-----------------------------------------------------------------------------
(* Physical devices, as far as Application::new reads them.                *)

device_extensions ==
    {"khr_swapchain", "khr_ray_tracing_pipeline", "khr_acceleration_structure",
     "khr_deferred_host_operations"}

PhysicalDeviceType ==
    {"DiscreteGpu", "IntegratedGpu", "VirtualGpu", "Cpu", "Other", "Unknown"}

QueueFamily(flags, support) == [queue_flags |-> flags, surface_support |-> support]

Capabilities(n, alphas) == [min_image_count |-> n, supported_composite_alpha |-> alphas]

PhysicalDevice(id, type, exts, geometry, families, caps, formats) ==
    [device_id |-> id, device_type |-> type, supported_extensions |-> exts,
     max_geometry_count |-> geometry, queue_family_properties |-> families,
     surface_capabilities |-> caps, surface_formats |-> formats]

\* a filter closure that hides every device when no list is given
VisibleMissingOrNone(p, visible) ==
    IF IsSome(visible) THEN ~Contains(Unwrap(visible), p.device_id) ELSE TRUE

\* the filter closure of the device selection
VisibleMissing(p, visible) ==
    IsSome(visible) /\ ~Contains(Unwrap(visible), p.device_id)

FilterDevice(p, visible) ==
    /\ device_extensions \subseteq p.supported_extensions
    /\ IsSome(p.max_geometry_count) /\ Unwrap(p.max_geometry_count) > 0
    /\ ~VisibleMissing(p, visible)

\* a position closure that forgets to ask for surface support
FamilyMatchesGraphicsOnly(p, i) ==
    p.queue_family_properties[i + 1].queue_flags \cap {"GRAPHICS"} # {}

\* the closure handed to position: index i is 0-based
FamilyMatches(p, i) ==
    LET q == p.queue_family_properties[i + 1]
    IN  /\ q.queue_flags \cap {"GRAPHICS"} # {}
        /\ q.surface_support = "Ok(true)"      \* unwrap_or(false)

\* Iterator::position: the index of the first family that matches
RECURSIVE PositionFrom(_, _)
PositionFrom(p, i) ==
    IF i >= Len(p.queue_family_properties) THEN None
    ELSE IF FamilyMatches(p, i) THEN Some(i)
    ELSE PositionFrom(p, i + 1)

Position(p) == PositionFrom(p, 0)

\* filter followed by filter_map, over the devices from index k on
RECURSIVE Candidates(_, _, _)
Candidates(devs, visible, k) ==
    IF k > Len(devs) THEN <<>>
    ELSE LET p == devs[k]
             rest == Candidates(devs, visible, k + 1)
         IN  IF FilterDevice(p, visible) /\ IsSome(Position(p))
             THEN <<[device |-> p, family |-> Unwrap(Position(p))]>> \o rest
             ELSE rest

\* the key closure of min_by_key
DeviceTypeKey(type) ==
    CASE type = "DiscreteGpu" -> 0
      [] type = "IntegratedGpu" -> 1
      [] type = "VirtualGpu" -> 2
      [] type = "Cpu" -> 3
      [] type = "Other" -> 4
      [] OTHER -> 5

\* a fold that lets a later element of equal key replace the earlier one
RECURSIVE MinByKeyFoldLast(_, _, _)
MinByKeyFoldLast(cands, best, k) ==
    IF k > Len(cands) THEN best
    ELSE IF DeviceTypeKey(best.device.device_type)
              >= DeviceTypeKey(cands[k].device.device_type)
         THEN MinByKeyFoldLast(cands, cands[k], k + 1)
         ELSE MinByKeyFoldLast(cands, best, k + 1)

\* Iterator::min_by_key: a fold that keeps the earlier element unless the
\* later one has a strictly smaller key
RECURSIVE MinByKeyFold(_, _, _)
MinByKeyFold(cands, best, k) ==
    IF k > Len(cands) THEN best
    ELSE IF DeviceTypeKey(best.device.device_type)
              > DeviceTypeKey(cands[k].device.device_type)
         THEN MinByKeyFold(cands, cands[k], k + 1)
         ELSE MinByKeyFold(cands, best, k + 1)

MinByKey(cands) ==
    IF cands = <<>> THEN None ELSE Some(MinByKeyFold(cands, cands[1], 2))

SelectDevice(devs, visible) == MinByKey(Candidates(devs, visible, 1))

-----------------------------------------------------------------------------
(* The primary monitor's video modes and the choice of the fullscreen mode. *)

VideoMode(w, h, hz) == [size |-> <<w, h>>, refresh_rate |-> hz]

\* a filter closure that compares the width only
WidthMatches(vm, config) == vm.size[1] = config.width

\* the filter closure: vm.size().eq(&PhysicalSize { width, height })
SizeMatches(vm, config) == vm.size = <<config.width, config.height>>

\* Iterator::max over the filtered modes: a fold that keeps the later element
\* unless the earlier one is strictly greater
RECURSIVE MaxFold(_, _, _, _)
MaxFold(modes, config, best, k) ==
    IF k > Len(modes) THEN best
    ELSE IF ~SizeMatches(modes[k], config) THEN MaxFold(modes, config, best, k + 1)
    ELSE IF IsSome(best) /\ Unwrap(best).refresh_rate > modes[k].refresh_rate
         THEN MaxFold(modes, config, best, k + 1)
         ELSE MaxFold(modes, config, Some(modes[k]), k + 1)

ChooseMode(modes, config) == MaxFold(modes, config, None, 1)

-----------------------------------------------------------------------------
(* Surface capabilities: the supported composite alphas are a flag set,    *)
(* iterated in the order of its flags.                                     *)

CompositeAlphaOrder == <<"Opaque", "PreMultiplied", "PostMultiplied", "Inherit">>

RECURSIVE NextAlpha(_, _)
NextAlpha(alphas, k) ==
    IF k > Len(CompositeAlphaOrder) THEN None
    ELSE IF CompositeAlphaOrder[k] \in alphas THEN Some(CompositeAlphaOrder[k])
    ELSE NextAlpha(alphas, k + 1)

\* supported_composite_alpha.into_iter().next()
FirstCompositeAlpha(caps) == NextAlpha(caps.supported_composite_alpha, 1)

\* a create info that hard-codes the present mode
SwapchainCreateInfoFifo(caps, format, config, alpha, mode) ==
    [min_image_count |-> caps.min_image_count,
     image_format |-> format,
     image_extent |-> <<config.width, config.height>>,
     image_usage |-> "COLOR_ATTACHMENT",
     composite_alpha |-> alpha,
     present_mode |-> "Fifo"]

SwapchainCreateInfo(caps, format, config, alpha, mode) ==
    [min_image_count |-> caps.min_image_count,
     image_format |-> format,
     image_extent |-> <<config.width, config.height>>,
     image_usage |-> "COLOR_ATTACHMENT",
     composite_alpha |-> alpha,
     present_mode |-> mode]

\* a struct literal that sizes the uniform buffers by the swapchain images
NewApplicationWithBuffers(config, mode, device, family, chain) ==
    [present_mode |-> mode,
     window |-> [config |-> config],
     device |-> [physical_device |-> device, queue_family_index |-> family],
     swapchain |-> chain,
     uniform_buffers |-> [i \in 1..chain.min_image_count |-> 0],
     depth_buffer |-> 0,
     graphics_pipeline |-> 0,
     swapchain_frame_buffers |-> <<>>,
     command_pool |-> 0,
     command_buffers |-> 0,
     image_available_semaphores |-> <<>>,
     render_finished_semaphores |-> <<>>,
     in_flight_fences |-> <<>>,
     current_frame |-> 0]

\* the struct literal of Ok(Application { .. })
NewApplication(config, mode, device, family, chain) ==
    [present_mode |-> mode,
     window |-> [config |-> config],
     device |-> [physical_device |-> device, queue_family_index |-> family],
     swapchain |-> chain,
     uniform_buffers |-> <<>>,
     depth_buffer |-> 0,
     graphics_pipeline |-> 0,
     swapchain_frame_buffers |-> <<>>,
     command_pool |-> 0,
     command_buffers |-> 0,
     image_available_semaphores |-> <<>>,
     render_finished_semaphores |-> <<>>,
     in_flight_fences |-> <<>>,
     current_frame |-> 0]

-----------------------------------------------------------------------------
(* Events and the handler closure of Application::run.                     *)

WindowEvent(ev, key, state) ==
    [kind |-> "WindowEvent", event |-> ev, virtual_keycode |-> key, state |-> state]

OtherEvent(kind, ev, key, state) ==
    [kind |-> kind, event |-> ev, virtual_keycode |-> key, state |-> state]

Events ==
    {WindowEvent("CloseRequested", None, "None"),
     WindowEvent("KeyboardInput", Some("Escape"), "Pressed"),
     WindowEvent("KeyboardInput", Some("Escape"), "Released"),
     WindowEvent("KeyboardInput", Some("A"), "Pressed"),
     WindowEvent("KeyboardInput", None, "Pressed"),
     WindowEvent("Resized", None, "None"),
     OtherEvent("DeviceEvent", "Key", Some("Escape"), "Pressed"),
     OtherEvent("MainEventsCleared", "None", None, "None")}

\* a match that exits on Escape only while the key is pressed
HandlerPressedOnly(e, flow) ==
    IF e.kind = "WindowEvent" /\ e.event = "CloseRequested" THEN "Exit"
    ELSE IF e.kind = "WindowEvent" /\ e.event = "KeyboardInput"
         THEN IF e.virtual_keycode = Some("Escape") /\ e.state = "Pressed"
              THEN "Exit" ELSE flow
         ELSE flow

\* the match of the closure: the value of *control_flow when it returns
Handler(e, flow) ==
    IF e.kind = "WindowEvent" /\ e.event = "CloseRequested" THEN "Exit"
    ELSE IF e.kind = "WindowEvent" /\ e.event = "KeyboardInput"
         THEN IF e.virtual_keycode = Some("Escape") THEN "Exit" ELSE flow
         ELSE flow

-----------------------------------------------------------------------------
(* The inputs: arguments of Application::new and the machine it runs on.   *)

WindowSizes == {<<DefaultWidth, DefaultHeight>>, <<640, 480>>}

Monitors ==
    {None,
     Some(<<>>),
     Some(<<VideoMode(1920, 1080, 60)>>),
     Some(<<VideoMode(640, 480, 60), VideoMode(DefaultWidth, 1024, 75),
            VideoMode(DefaultWidth, DefaultHeight, 60)>>),
     Some(<<VideoMode(DefaultWidth, DefaultHeight, 144), VideoMode(640, 480, 75),
            VideoMode(DefaultWidth, DefaultHeight, 60)>>)}

Formats ==
    {<<>>,
     <<<<"B8G8R8A8_UNORM", "SrgbNonLinear">>>>,
     <<<<"R8G8B8A8_SRGB", "SrgbNonLinear">>, <<"B8G8R8A8_UNORM", "SrgbNonLinear">>>>}

AlphaSets == {{}, {"Opaque", "Inherit"}, {"PostMultiplied", "PreMultiplied"}}

Graphics == {"GRAPHICS", "COMPUTE"}
Compute == {"COMPUTE", "TRANSFER"}

UsualCaps == Capabilities(MaxImageCount, {"Opaque", "Inherit"})
UsualFormats == <<<<"B8G8R8A8_UNORM", "SrgbNonLinear">>>>
UsualFamilies == <<QueueFamily(Graphics, "Ok(true)")>>

\* devices that differ in what the surface reports for them
SurfaceDevices ==
    {PhysicalDevice(1, "DiscreteGpu", device_extensions, Some(1),
                    <<QueueFamily(Compute, "Ok(true)"), QueueFamily(Graphics, "Ok(true)")>>,
                    Capabilities(n, a), f) :
        n \in 1..MaxImageCount, a \in AlphaSets, f \in Formats}

LongFamilies ==
    <<QueueFamily(Graphics, "Ok(false)"), QueueFamily(Compute, "Ok(true)"),
      QueueFamily(Graphics, "Ok(true)"), QueueFamily(Graphics, "Ok(true)")>>

SelectionDevice(id, type, exts, geometry, families) ==
    PhysicalDevice(id, type, exts, geometry, families, UsualCaps, UsualFormats)

\* devices that differ in what the selection reads
SelectionDevices ==
    {SelectionDevice(1, "DiscreteGpu", device_extensions, Some(1), UsualFamilies),
     SelectionDevice(2, "DiscreteGpu", device_extensions, Some(2), LongFamilies),
     SelectionDevice(1, "IntegratedGpu", device_extensions, Some(1), LongFamilies),
     SelectionDevice(2, "IntegratedGpu", device_extensions, Some(1), UsualFamilies)}
    \cup
    {SelectionDevice(2, type, device_extensions, Some(1), UsualFamilies) :
        type \in PhysicalDeviceType \ {"DiscreteGpu", "IntegratedGpu"}}
    \cup
    {SelectionDevice(1, "DiscreteGpu", device_extensions \ {e}, Some(1), UsualFamilies) :
        e \in device_extensions}
    \cup
    {SelectionDevice(1, "DiscreteGpu", device_extensions, g, UsualFamilies) :
        g \in {None, Some(0)}}
    \cup
    {SelectionDevice(1, "DiscreteGpu", device_extensions, Some(1), fam) :
        fam \in {<<>>,
                 <<QueueFamily(Graphics, "Err"), QueueFamily(Compute, "Ok(true)")>>}}

\* the values a field of UserSettings takes besides its default
F32Values == {"NaN", "-0.0", "0.0", "10.0", "90.0"}

FieldValues(field) ==
    CASE field \in {"field_of_view", "aperture", "focus_distance"} -> F32Values
      [] field = "heatmap_scale" -> {"1.5", "NaN"}
      [] field \in {"benchmark", "benchmark_next_scenes", "is_ray_traced",
                    "accumulate_rays", "show_heatmap", "show_settings",
                    "show_overlay"} -> BOOLEAN
      [] field = "benchmark_max_time" -> {60, 61}
      [] field = "scene_index" -> {1, 2}
      [] field = "number_of_samples" -> {8, 9}
      [] field = "number_of_bounces" -> {16, 17}
      [] field = "max_number_of_samples" -> {65536, 65537}

\* the settings that differ from one of `from` in at most n fields
RECURSIVE Changed(_, _)
Changed(from, n) ==
    IF n = 0 THEN from
    ELSE Changed(from \cup UNION {{[s EXCEPT ![f] = v] : v \in FieldValues(f)} :
                                     s \in from,
                                     f \in DOMAIN FromOptions(DefaultOptions)}, n - 1)

NoCalls == [forward |-> None, backward |-> None]

DeviceLists(pool, n) ==
    UNION {[1..k -> pool] : k \in 0..n}

VisibleLists == {None, Some(<<>>), Some(<<1>>), Some(<<3, 2>>)}

InitNew(configs, modes, visibles, monitors, devices) ==
    /\ pc = "load_library"
    /\ window_config \in configs
    /\ present_mode \in modes
    /\ visible_devices \in visibles
    /\ primary_monitor \in monitors
    /\ physical_devices \in devices
    /\ attempted = <<>>
    /\ succeeded = <<>>
    /\ fullscreen = None
    /\ physical_device = None
    /\ queue_family_index = None
    /\ surface_capabilities = None
    /\ image_format = None
    /\ swapchain = None
    /\ result = "Pending"
    /\ application = None
    /\ control_flow = "Poll"
    /\ event = None

\* the settings main builds from Options::default()
InitWith(configs, modes, visibles, monitors, devices) ==
    /\ InitNew(configs, modes, visibles, monitors, devices)
    /\ user_settings = FromOptions(DefaultOptions)
    /\ prev_settings = FromOptions(DefaultOptions)
    /\ reset_calls = NoCalls

\* any window configuration and present mode, few devices
Init ==
    InitWith({WindowConfig(s[1], s[2], fs) : s \in WindowSizes, fs \in BOOLEAN},
             {PresentModeOf(n) : n \in 0..3},
             {None, Some(<<1>>)},
             Monitors,
             DeviceLists(SurfaceDevices, 1))

\* the configuration of main, any devices
InitDevices ==
    InitWith({WindowConfig(DefaultWidth, DefaultHeight, FALSE)},
             {PresentModeOf(2)},
             VisibleLists,
             {None},
             DeviceLists(SelectionDevices, MaxDevices))

-----------------------------------------------------------------------------
(* Application::new, one action per stage.                                 *)

inputs == <<window_config, present_mode, visible_devices, primary_monitor,
            physical_devices, user_settings, prev_settings, reset_calls>>
locals == <<fullscreen, physical_device, queue_family_index, surface_capabilities,
            image_format, swapchain>>
running == <<application, control_flow, event>>

\* a stage that succeeds and hands over to the statement at `next`
Proceed(stage, next) ==
    /\ pc' = next
    /\ attempted' = Append(attempted, stage)
    /\ succeeded' = Append(succeeded, stage)
    /\ result' = result

\* `?` on an Err: new returns it
Return(stage, error) ==
    /\ pc' = "returned_err"
    /\ attempted' = Append(attempted, stage)
    /\ succeeded' = succeeded
    /\ result' = error

\* VulkanLibrary::new().map_err(LoadingError)?
LoadLibrary ==
    /\ pc = "load_library"
    /\ \/ Proceed("library", "create_instance")
       \/ Return("library", "LoadingError")
    /\ UNCHANGED <<inputs, locals, running>>

\* Instance::new(..).map_err(InstanceCreationError)?
CreateInstance ==
    /\ pc = "create_instance"
    /\ \/ Proceed("instance", "create_event_loop")
       \/ Return("instance", "InstanceCreationError")
    /\ UNCHANGED <<inputs, locals, running>>

\* EventLoop::new()
CreateEventLoop ==
    /\ pc = "create_event_loop"
    /\ Proceed("event_loop", "choose_video_mode")
    /\ UNCHANGED <<inputs, locals, running>>

\* let fullscreen = if window_config.fullscreen { .. } else { None }
ChooseVideoMode ==
    /\ pc = "choose_video_mode"
    /\ IF window_config.fullscreen
       THEN IF ~IsSome(primary_monitor)
            THEN Return("video_mode", "NoPrimaryMonitorError") /\ fullscreen' = fullscreen
            ELSE LET mode == ChooseMode(Unwrap(primary_monitor), window_config)
                 IN  IF ~IsSome(mode)
                     THEN Return("video_mode", "NoVideoModeError")
                          /\ fullscreen' = fullscreen
                     ELSE Proceed("video_mode", "build_window")
                          /\ fullscreen' = Some([exclusive |-> Unwrap(mode)])
       ELSE /\ pc' = "build_window"
            /\ fullscreen' = None
            /\ UNCHANGED <<attempted, succeeded, result>>
    /\ UNCHANGED <<inputs, physical_device, queue_family_index, surface_capabilities,
                   image_format, swapchain, running>>

\* a window stage that goes on although the build failed
BuildWindowUnchecked ==
    /\ pc = "build_window"
    /\ \/ Proceed("window", "create_surface")
       \/ /\ pc' = "create_surface"
          /\ attempted' = Append(attempted, "window")
          /\ UNCHANGED <<succeeded, result>>
    /\ UNCHANGED <<inputs, locals, running>>

\* WindowBuilder::new()..build(&el).map_err(OsError)?
BuildWindow ==
    /\ pc = "build_window"
    /\ \/ Proceed("window", "create_surface")
       \/ Return("window", "OsError")
    /\ UNCHANGED <<inputs, locals, running>>

\* create_surface_from_winit(..).map_err(SurfaceCreationError)?
CreateSurface ==
    /\ pc = "create_surface"
    /\ \/ Proceed("surface", "select_physical_device")
       \/ Return("surface", "SurfaceCreationError")
    /\ UNCHANGED <<inputs, locals, running>>

\* enumerate_physical_devices()?.filter(..).filter_map(..).min_by_key(..).ok_or(..)?
SelectPhysicalDevice ==
    /\ pc = "select_physical_device"
    /\ \/ /\ Return("physical_device", "VulkanError")
          /\ UNCHANGED <<physical_device, queue_family_index>>
       \/ LET chosen == SelectDevice(physical_devices, visible_devices)
          IN  IF ~IsSome(chosen)
              THEN /\ Return("physical_device", "NoPhysicalDevicesError")
                   /\ UNCHANGED <<physical_device, queue_family_index>>
              ELSE /\ Proceed("physical_device", "create_device")
                   /\ physical_device' = Some(Unwrap(chosen).device)
                   /\ queue_family_index' = Some(Unwrap(chosen).family)
    /\ UNCHANGED <<inputs, fullscreen, surface_capabilities, image_format, swapchain,
                   running>>

\* Device::new(..).map_err(DeviceCreationError)?
CreateDevice ==
    /\ pc = "create_device"
    /\ \/ Proceed("device", "take_queue")
       \/ Return("device", "DeviceCreationError")
    /\ UNCHANGED <<inputs, locals, running>>

\* a queue stage that reports the wrong variant
TakeQueueWrongError ==
    /\ pc = "take_queue"
    /\ \/ Proceed("queue", "surface_capabilities")
       \/ Return("queue", "NoPhysicalDevicesError")
    /\ UNCHANGED <<inputs, locals, running>>

\* queues.next().ok_or(NoQueuesCreatedError)?
TakeQueue ==
    /\ pc = "take_queue"
    /\ \/ Proceed("queue", "surface_capabilities")
       \/ Return("queue", "NoQueuesCreatedError")
    /\ UNCHANGED <<inputs, locals, running>>

\* physical_device().surface_capabilities(..).map_err(PhysicalDeviceError)?
SurfaceCapabilities ==
    /\ pc = "surface_capabilities"
    /\ \/ /\ Proceed("surface_capabilities", "surface_formats")
          /\ surface_capabilities' = Some(Unwrap(physical_device).surface_capabilities)
       \/ /\ Return("surface_capabilities", "PhysicalDeviceError")
          /\ UNCHANGED surface_capabilities
    /\ UNCHANGED <<inputs, fullscreen, physical_device, queue_family_index, image_format,
                   swapchain, running>>

\* Some(physical_device().surface_formats(..).map_err(PhysicalDeviceError)?[0].0)
SurfaceFormats ==
    /\ pc = "surface_formats"
    /\ \/ LET formats == Unwrap(physical_device).surface_formats
          IN  IF Len(formats) = 0
              THEN \* index out of bounds: the thread panics
                   /\ pc' = "panicked"
                   /\ attempted' = Append(attempted, "surface_formats")
                   /\ succeeded' = Append(succeeded, "surface_formats")
                   /\ result' = "Panic"
                   /\ UNCHANGED image_format
              ELSE /\ Proceed("surface_formats", "create_swapchain")
                   /\ image_format' = Some(formats[1][1])
       \/ /\ Return("surface_formats", "PhysicalDeviceError")
          /\ UNCHANGED image_format
    /\ UNCHANGED <<inputs, fullscreen, physical_device, queue_family_index,
                   surface_capabilities, swapchain, running>>

\* Swapchain::new(.., SwapchainCreateInfo { .. })
\*     .map_err(SwapchainCreationError)?, then Ok(Application { .. })
CreateSwapchain ==
    /\ pc = "create_swapchain"
    /\ LET alpha == FirstCompositeAlpha(Unwrap(surface_capabilities))
       IN  IF ~IsSome(alpha)
           THEN /\ pc' = "returned_err"
                /\ result' = "NoSupportedCompositeAlphasError"
                /\ UNCHANGED <<attempted, succeeded, swapchain, application>>
           ELSE \/ LET info == SwapchainCreateInfo(Unwrap(surface_capabilities),
                                                    image_format, window_config,
                                                    Unwrap(alpha), present_mode)
                   IN  /\ pc' = "returned_ok"
                       /\ attempted' = Append(attempted, "swapchain")
                       /\ succeeded' = Append(succeeded, "swapchain")
                       /\ result' = "Ok"
                       /\ swapchain' = Some(info)
                       /\ application' =
                            Some(NewApplication(window_config, present_mode,
                                                Unwrap(physical_device),
                                                Unwrap(queue_family_index), info))
                \/ /\ Return("swapchain", "SwapchainCreationError")
                   /\ UNCHANGED <<swapchain, application>>
    /\ UNCHANGED <<inputs, fullscreen, physical_device, queue_family_index,
                   surface_capabilities, image_format, control_flow, event>>

-----------------------------------------------------------------------------
(* main after RayTracer::new returned Ok, and Application::run.            *)

\* application.run(): the event loop starts
Run ==
    /\ pc = "returned_ok"
    /\ pc' = "run"
    /\ UNCHANGED <<inputs, locals, attempted, succeeded, result, running>>

\* the event loop hands one event to the closure
HandleEvent ==
    /\ pc = "run"
    /\ \E e \in Events :
          /\ event' = Some(e)
          /\ control_flow' = Handler(e, control_flow)
    /\ UNCHANGED <<pc, inputs, locals, attempted, succeeded, result, application>>

\* the event loop ends once the control flow is Exit
LoopExit ==
    /\ pc = "run"
    /\ control_flow = "Exit"
    /\ pc' = "exited"
    /\ UNCHANGED <<inputs, locals, attempted, succeeded, result, running>>

Next ==
    \/ LoadLibrary
    \/ CreateInstance
    \/ CreateEventLoop
    \/ ChooseVideoMode
    \/ BuildWindow
    \/ CreateSurface
    \/ SelectPhysicalDevice
    \/ CreateDevice
    \/ TakeQueue
    \/ SurfaceCapabilities
    \/ SurfaceFormats
    \/ CreateSwapchain
    \/ Run
    \/ HandleEvent
    \/ LoopExit

Spec == Init /\ [][Next]_vars

SpecDevices == InitDevices /\ [][Next]_vars

-----------------------------------------------------------------------------
(* UserSettings::requires_accumulation_reset on any two settings.          *)

app_state == <<pc, window_config, present_mode, visible_devices, primary_monitor,
               physical_devices, attempted, succeeded, locals, result, running>>

InitSettings ==
    /\ InitNew({WindowConfig(DefaultWidth, DefaultHeight, FALSE)},
               {PresentModeOf(2)}, {None}, {None}, {<<>>})
    /\ user_settings \in Changed({FromOptions(DefaultOptions)}, MaxChanges)
    /\ prev_settings \in Changed({user_settings}, MaxChanges)
    /\ reset_calls = NoCalls

\* user_settings.requires_accumulation_reset(&prev_settings)
ResetForward ==
    /\ reset_calls.forward = None
    /\ reset_calls' = [reset_calls EXCEPT
          !.forward = Some(RequiresAccumulationReset(user_settings, prev_settings))]
    /\ UNCHANGED <<app_state, user_settings, prev_settings>>

\* prev_settings.requires_accumulation_reset(&user_settings)
ResetBackward ==
    /\ reset_calls.backward = None
    /\ reset_calls' = [reset_calls EXCEPT
          !.backward = Some(RequiresAccumulationReset(prev_settings, user_settings))]
    /\ UNCHANGED <<app_state, user_settings, prev_settings>>

NextSettings ==
    \/ ResetForward
    \/ ResetBackward

SpecSettings == InitSettings /\ [][NextSettings]_vars

-----------------------------------------------------------------------------
(* Vocabulary of the properties, stated without the operators of new.      *)

IsPrefix(a, b) == Len(a) <= Len(b) /\ \A i \in 1..Len(a) : a[i] = b[i]

Elements(seq) == {seq[i] : i \in 1..Len(seq)}

StageOrder(fs) ==
    <<"library", "instance", "event_loop">>
    \o (IF fs THEN <<"video_mode">> ELSE <<>>)
    \o <<"window", "surface", "physical_device", "device", "queue",
         "surface_capabilities", "surface_formats", "swapchain">>

Failed == Len(attempted) > Len(succeeded)

FailedStage == attempted[Len(attempted)]

StageErrors(stage) ==
    CASE stage = "library" -> {"LoadingError"}
      [] stage = "instance" -> {"InstanceCreationError"}
      [] stage = "video_mode" -> {"NoPrimaryMonitorError", "NoVideoModeError"}
      [] stage = "window" -> {"OsError"}
      [] stage = "surface" -> {"SurfaceCreationError"}
      [] stage = "physical_device" -> {"VulkanError", "NoPhysicalDevicesError"}
      [] stage = "device" -> {"DeviceCreationError"}
      [] stage = "queue" -> {"NoQueuesCreatedError"}
      [] stage = "surface_capabilities" -> {"PhysicalDeviceError"}
      [] stage = "surface_formats" -> {"PhysicalDeviceError"}
      [] stage = "swapchain" -> {"SwapchainCreationError"}
      [] OTHER -> {}

RequiredExtensions ==
    {"khr_swapchain", "khr_ray_tracing_pipeline", "khr_acceleration_structure",
     "khr_deferred_host_operations"}

GraphicsAndPresent(p, i) ==
    /\ "GRAPHICS" \in p.queue_family_properties[i + 1].queue_flags
    /\ p.queue_family_properties[i + 1].surface_support = "Ok(true)"

Visible(p) ==
    visible_devices = None \/ p.device_id \in Elements(visible_devices[1])

Eligible(p) ==
    /\ RequiredExtensions \subseteq p.supported_extensions
    /\ p.max_geometry_count # None
    /\ p.max_geometry_count[1] > 0
    /\ Visible(p)
    /\ \E i \in 0..(Len(p.queue_family_properties) - 1) : GraphicsAndPresent(p, i)

RankOrder == <<"DiscreteGpu", "IntegratedGpu", "VirtualGpu", "Cpu", "Other">>

Rank(p) ==
    IF \E r \in 1..Len(RankOrder) : RankOrder[r] = p.device_type
    THEN CHOOSE r \in 1..Len(RankOrder) : RankOrder[r] = p.device_type
    ELSE Len(RankOrder) + 1

EligibleIndexes == {k \in 1..Len(physical_devices) : Eligible(physical_devices[k])}

\* the device selection has run on an enumeration that succeeded
Selected == "physical_device" \in Elements(attempted) /\ result # "VulkanError"

IsExitEvent(e) ==
    /\ e.kind = "WindowEvent"
    /\ \/ e.event = "CloseRequested"
       \/ e.event = "KeyboardInput" /\ e.virtual_keycode = <<"Escape">>

-----------------------------------------------------------------------------
(* C1: the stages of Application::new start in one fixed order (the video  *)
(* mode only when fullscreen is requested), a stage starts only when every *)
(* earlier stage has succeeded, and Ok(Application) is returned only after *)
(* the swapchain has been created.                                         *)
StagesInOrder ==
    /\ IsPrefix(attempted, StageOrder(window_config.fullscreen))
    /\ IsPrefix(succeeded, attempted)
    /\ Len(attempted) <= Len(succeeded) + 1
    /\ Failed => pc = "returned_err"
    /\ (result = "Ok" \/ application # None \/ pc \in {"returned_ok", "run", "exited"})
          => /\ succeeded = StageOrder(window_config.fullscreen)
             /\ swapchain # None

StagesInOrderWitness ==
    /\ result = "Ok"
    /\ window_config.fullscreen
    /\ attempted = StageOrder(TRUE)

(* C2: a failing stage makes new return the error variant of that stage;   *)
(* nothing is attempted after it and no Application is produced.           *)
ErrorOfFailedStage ==
    /\ Failed => result \in StageErrors(FailedStage)
    /\ result \in ApplicationCreationError =>
          /\ pc = "returned_err"
          /\ application = None
          /\ swapchain = None
          /\ IF Failed
             THEN result \in StageErrors(FailedStage)
             ELSE /\ result = "NoSupportedCompositeAlphasError"
                  /\ succeeded # <<>>
                  /\ succeeded[Len(succeeded)] = "surface_formats"
                  /\ physical_device[1].surface_capabilities.supported_composite_alpha = {}
    /\ result = "NoPrimaryMonitorError" => primary_monitor = None
    /\ result = "NoVideoModeError" =>
          /\ primary_monitor # None
          /\ \A vm \in Elements(primary_monitor[1]) :
                vm.size # <<window_config.width, window_config.height>>
    /\ result = "NoPhysicalDevicesError" => EligibleIndexes = {}

ErrorOfFailedStageWitness ==
    /\ result = "NoQueuesCreatedError"
    /\ FailedStage = "queue"
    /\ Len(succeeded) = 7

(* C3: a selected physical device supports the four required extensions,   *)
(* has a max_geometry_count that is present and positive, is visible, and  *)
(* the queue family index returned is the lowest index of a family with    *)
(* GRAPHICS that can present to the surface.                               *)
SelectedDeviceEligible ==
    physical_device # None =>
        LET p == physical_device[1]
            i == queue_family_index[1]
        IN  /\ p \in Elements(physical_devices)
            /\ Eligible(p)
            /\ i \in 0..(Len(p.queue_family_properties) - 1)
            /\ GraphicsAndPresent(p, i)
            /\ \A j \in 0..(i - 1) : ~GraphicsAndPresent(p, j)

SelectedDeviceEligibleWitness ==
    /\ physical_device # None
    /\ queue_family_index = <<2>>
    /\ visible_devices = <<<<3, 2>>>>
    /\ Len(physical_devices) = 2

(* C4: the selected device has the lowest rank among the eligible devices  *)
(* (DiscreteGpu, IntegratedGpu, VirtualGpu, Cpu, Other, then any other     *)
(* type), and is the first of that rank in enumeration order.              *)
SelectedDeviceBestRank ==
    physical_device # None =>
        LET best == CHOOSE k \in EligibleIndexes :
                        \A m \in EligibleIndexes :
                            \/ Rank(physical_devices[k]) < Rank(physical_devices[m])
                            \/ /\ Rank(physical_devices[k]) = Rank(physical_devices[m])
                               /\ k <= m
        IN  /\ EligibleIndexes # {}
            /\ \A m \in EligibleIndexes :
                  Rank(physical_device[1]) <= Rank(physical_devices[m])
            /\ physical_device[1] = physical_devices[best]

SelectedDeviceBestRankWitness ==
    /\ physical_device # None
    /\ \E k, m \in EligibleIndexes :
          /\ k < m
          /\ Rank(physical_devices[k]) = Rank(physical_devices[m])
          /\ physical_devices[k] # physical_devices[m]
          /\ physical_device[1] = physical_devices[k]

(* C5: in run, the handler sets the control flow to Exit exactly for a      *)
(* window CloseRequested event or a window KeyboardInput event whose       *)
(* virtual keycode is Escape, pressed or released; any other event leaves  *)
(* the control flow as it was; an exit once requested is never revoked.    *)
ExitOnlyOnCloseOrEscape ==
    /\ [][(pc = "run" /\ pc' = "run") =>
             /\ event' # None
             /\ IF IsExitEvent(event'[1])
                THEN control_flow' = "Exit"
                ELSE control_flow' = control_flow]_vars
    /\ [][control_flow = "Exit" => control_flow' = "Exit"]_vars
    /\ [](control_flow \in {"Poll", "Exit"})
    /\ [](event = None => control_flow = "Poll")

ExitOnlyOnCloseOrEscapeWitness ==
    /\ pc = "run"
    /\ control_flow = "Exit"
    /\ event # None
    /\ event[1].event = "KeyboardInput"
    /\ event[1].state = "Released"
    /\ event[1].virtual_keycode = <<"Escape">>

(* C6: once the enumeration has succeeded, new returns                     *)
(* NoPhysicalDevicesError exactly when no enumerated device is eligible;   *)
(* visible_devices = None hides no device and an empty visible list always *)
(* yields NoPhysicalDevicesError.                                          *)
NoDeviceIffNoneEligible ==
    Selected =>
        /\ result = "NoPhysicalDevicesError" <=> EligibleIndexes = {}
        /\ visible_devices = None =>
              (result = "NoPhysicalDevicesError" <=>
                  \A p \in Elements(physical_devices) :
                      ~(/\ RequiredExtensions \subseteq p.supported_extensions
                        /\ p.max_geometry_count # None
                        /\ p.max_geometry_count[1] > 0
                        /\ \E i \in 0..(Len(p.queue_family_properties) - 1) :
                              GraphicsAndPresent(p, i)))
        /\ visible_devices = <<<<>>>> => result = "NoPhysicalDevicesError"

NoDeviceIffNoneEligibleWitness ==
    /\ Selected
    /\ result = "NoPhysicalDevicesError"
    /\ visible_devices = <<<<1>>>>
    /\ Len(physical_devices) = 2
    /\ \A p \in Elements(physical_devices) : p.device_id = 2 /\ p.device_type = "DiscreteGpu"

(* C7: the swapchain is created with the minimum image count of the        *)
(* surface capabilities, the first reported format, the configured width   *)
(* and height as extent, the first supported composite alpha and the       *)
(* caller's present mode; the Application carries the caller's present     *)
(* mode.                                                                   *)
SwapchainAsNegotiated ==
    /\ swapchain # None =>
          LET info == swapchain[1]
              p == physical_device[1]
              alphas == p.surface_capabilities.supported_composite_alpha
          IN  /\ info.min_image_count = p.surface_capabilities.min_image_count
              /\ p.surface_formats # <<>>
              /\ info.image_format = <<p.surface_formats[1][1]>>
              /\ info.image_extent = <<window_config.width, window_config.height>>
              /\ info.composite_alpha \in alphas
              /\ \E k \in 1..Len(CompositeAlphaOrder) :
                    /\ CompositeAlphaOrder[k] = info.composite_alpha
                    /\ \A j \in 1..(k - 1) : CompositeAlphaOrder[j] \notin alphas
              /\ info.present_mode = present_mode
    /\ application # None =>
          /\ application[1].present_mode = present_mode
          /\ application[1].swapchain = swapchain[1]
    /\ result = "Ok" => swapchain # None /\ application # None

SwapchainAsNegotiatedWitness ==
    /\ application # None
    /\ present_mode = "Mailbox"
    /\ swapchain[1].composite_alpha = "PreMultiplied"
    /\ swapchain[1].image_format = <<"R8G8B8A8_SRGB">>
    /\ swapchain[1].image_extent = <<640, 480>>
    /\ swapchain[1].min_image_count = MaxImageCount

(* C8: once new has succeeded, and after any events handled by run, the    *)
(* placeholder fields of the Application keep their default values.        *)
PlaceholdersKeepDefaults ==
    /\ pc \in {"returned_ok", "run", "exited"} => application # None
    /\ application # None =>
          LET a == application[1]
          IN  /\ a.uniform_buffers = <<>>
              /\ a.swapchain_frame_buffers = <<>>
              /\ a.image_available_semaphores = <<>>
              /\ a.render_finished_semaphores = <<>>
              /\ a.in_flight_fences = <<>>
              /\ a.depth_buffer = 0
              /\ a.graphics_pipeline = 0
              /\ a.command_pool = 0
              /\ a.command_buffers = 0
              /\ a.current_frame = 0

PlaceholdersKeepDefaultsWitness ==
    /\ pc = "exited"
    /\ application # None
    /\ event # None
    /\ event[1].event = "Resized"

(* C9: new reports every failure as an Err value and never panics, also    *)
(* when the surface reports an empty format list.                          *)
NewNeverPanics ==
    /\ result # "Panic"
    /\ pc # "panicked"

(* C10: the primary monitor and its video modes are consulted only when    *)
(* fullscreen is requested; then the chosen mode has exactly the           *)
(* configured size, a missing primary monitor gives NoPrimaryMonitorError  *)
(* and a monitor without a mode of that size gives NoVideoModeError.       *)
VideoModeOnlyWhenFullscreen ==
    LET size == <<window_config.width, window_config.height>>
        consulted == "video_mode" \in Elements(attempted)
        past == Len(succeeded) >= 3 /\ pc # "choose_video_mode"
    IN  /\ ~window_config.fullscreen =>
              /\ result \notin {"NoPrimaryMonitorError", "NoVideoModeError"}
              /\ ~consulted
              /\ fullscreen = None
        /\ (window_config.fullscreen /\ past) =>
              /\ consulted
              /\ IF primary_monitor = None
                 THEN result = "NoPrimaryMonitorError"
                 ELSE IF \A vm \in Elements(primary_monitor[1]) : vm.size # size
                 THEN result = "NoVideoModeError"
                 ELSE /\ result \notin {"NoPrimaryMonitorError", "NoVideoModeError"}
                      /\ fullscreen # None
        /\ fullscreen # None =>
              /\ fullscreen[1].exclusive.size = size
              /\ fullscreen[1].exclusive \in Elements(primary_monitor[1])

VideoModeOnlyWhenFullscreenWitness ==
    /\ result = "Ok"
    /\ fullscreen # None
    /\ fullscreen[1].exclusive.refresh_rate = 144
    /\ Len(primary_monitor[1]) = 3

(* Vocabulary of C11.                                                      *)

ResetFields ==
    {"is_ray_traced", "accumulate_rays", "number_of_bounces", "field_of_view",
     "aperture", "focus_distance"}

OtherFields ==
    {"benchmark", "benchmark_next_scenes", "benchmark_max_time", "scene_index",
     "number_of_samples", "max_number_of_samples", "show_heatmap", "heatmap_scale",
     "show_settings", "show_overlay"}

FloatFields == {"field_of_view", "aperture", "focus_distance"}

\* the fields in which two settings hold different numbers, 0.0 and -0.0
\* being one number
Zero(x) == IF x = "-0.0" THEN "0.0" ELSE x

DifferingNumbers(a, b) ==
    {f \in ResetFields \cup OtherFields :
        IF f \in FloatFields THEN Zero(a[f]) # Zero(b[f]) ELSE a[f] # b[f]}

HasNaN(a) == \E f \in FloatFields : a[f] = "NaN"

(* C11 as stated: requires_accumulation_reset is true exactly when the two *)
(* settings differ in one of the six reset fields, never for a difference  *)
(* confined to the other fields, and the same with the arguments swapped.  *)
ResetIffResetFieldDiffers ==
    /\ reset_calls.forward # None =>
          /\ reset_calls.forward[1]
                <=> DifferingNumbers(user_settings, prev_settings)
                       \cap ResetFields # {}
          /\ DifferingNumbers(user_settings, prev_settings) \subseteq OtherFields
                => ~reset_calls.forward[1]
    /\ (reset_calls.forward # None /\ reset_calls.backward # None)
          => reset_calls.forward = reset_calls.backward

(* C11 as amended: for settings whose field_of_view, aperture and          *)
(* focus_distance are not NaN the result is true exactly when they differ  *)
(* in one of the six reset fields, 0.0 and -0.0 being the same number, and *)
(* never for a difference confined to the other fields; when one of those  *)
(* three fields of either is NaN the result is true; in every case the     *)
(* result is the same with the arguments swapped.                          *)
ResetIffResetFieldDiffersNoNaN ==
    /\ reset_calls.forward # None =>
          IF HasNaN(user_settings) \/ HasNaN(prev_settings)
          THEN reset_calls.forward[1]
          ELSE /\ reset_calls.forward[1]
                     <=> DifferingNumbers(user_settings, prev_settings)
                            \cap ResetFields # {}
               /\ DifferingNumbers(user_settings, prev_settings) \subseteq OtherFields
                     => ~reset_calls.forward[1]
    /\ (reset_calls.forward # None /\ reset_calls.backward # None)
          => reset_calls.forward = reset_calls.backward

ResetIffResetFieldDiffersNoNaNWitness ==
    /\ reset_calls.forward = <<TRUE>>
    /\ reset_calls.backward = <<TRUE>>
    /\ ~HasNaN(user_settings)
    /\ ~HasNaN(prev_settings)
    /\ DifferingNumbers(user_settings, prev_settings) = {"focus_distance"}
    /\ prev_settings.focus_distance = "90.0"

====
